---- MODULE Spec2Model ----
(***************************************************************************)
(* trprvr: walk a directory tree, extract the cues of every .ass / .srt /  *)
(* .vtt / .lrc file, strip their markup, classify each cue's language and  *)
(* print chinese / (chinese + japanese) as one line (src/src/main.rs).     *)
(*                                                                         *)
(* A string is a sequence of one-character strings.  The external          *)
(* collaborators (WalkDir, File, chardetng, the aspasia and lrc parsers,   *)
(* whichlang) are not part of the source: what they return is the input of *)
(* the model, drawn from small sets at the step that calls them.           *)
(***************************************************************************)
EXTENDS Integers, Sequences, FiniteSets, Bags, TLC

VARIABLES
    pc,              \* position of main: walk, open, read, decode, reread, parse, cues, print, done
    walked,          \* directory entries WalkDir has yielded so far
    ext,             \* main's `ext` (lower-cased extension of the current file)
    failure,         \* how the current file failed ("none" while it has not)
    events,          \* the parser's events / timed lines of the current file
    texts,           \* main's `texts`
    ti,              \* cues of `texts` already consumed by the for loop
    text,            \* the cue handed to clean_text
    cleaned,         \* main's `cleaned`
    chinese_count,   \* main's chinese_count
    japanese_count,  \* main's japanese_count
    detector,        \* whichlang::detect_language as a function of the cleaned text
    stdout,          \* lines printed by println!
    labelled,        \* history: bag of the labels detect_language has returned
    cueBag,          \* history: bag of the cues the extractors have returned
    entered,         \* history: the cues of the current file handed to clean_text so far
    atOpen,          \* history: the counters when the current file was picked up
    prev,            \* history: the counters before the last record
    lastLang         \* history: the label of the last record

vars == <<pc, walked, ext, failure, events, texts, ti, text, cleaned,
          chinese_count, japanese_count, detector, stdout, labelled, cueBag, entered, atOpen, prev, lastLang>>

(***************************************************************************)
(* Bounds of the model.                                                    *)
(***************************************************************************)
MaxEntries == 2
MaxCues == 2
MaxLen == 5
MaxCount == 12
MaxLines == 3

(***************************************************************************)
(* Strings.                                                                *)
(***************************************************************************)
\* The characters of the cues of CleanSpec: the two markup families, a
\* white-space character and a letter.
Chars == {"{", "}", "<", ">", " ", "a"}

\* char::is_whitespace, on the characters of the model.
IsWhitespace(ch) == ch = " "

RECURSIVE TrimStart(_)
\* str::trim_start: drop the leading white space.
TrimStart(s) ==
    IF s # <<>> /\ IsWhitespace(Head(s)) THEN TrimStart(Tail(s)) ELSE s

RECURSIVE TrimEnd(_)
\* str::trim_end: drop the trailing white space.
TrimEnd(s) ==
    IF s # <<>> /\ IsWhitespace(s[Len(s)])
    THEN TrimEnd(SubSeq(s, 1, Len(s) - 1))
    ELSE s

\* str::trim.
Trim(s) == TrimEnd(TrimStart(s))

\* The first position j >= i of s holding ch, or 0 when there is none.
FirstAt(s, i, ch) ==
    LET hits == {j \in i..Len(s) : s[j] = ch}
    IN  IF hits = {} THEN 0 ELSE CHOOSE j \in hits : \A k \in hits : j <= k

RECURSIVE ReplaceAll(_, _, _, _, _)
\* Regex::replace_all(s, "") from position i, for a pattern made of `open`, a
\* run of at least `least` characters other than `close`, and `close`: the
\* leftmost match is removed and the scan goes on after it; a position where
\* the pattern does not match keeps its character.
ReplaceAll(s, i, open, close, least) ==
    IF i > Len(s) THEN <<>>
    ELSE LET j == FirstAt(s, i + 1, close)
         IN  IF s[i] = open /\ j # 0 /\ j - i - 1 >= least
             THEN ReplaceAll(s, j + 1, open, close, least)
             ELSE <<s[i]>> \o ReplaceAll(s, i + 1, open, close, least)

\* The greedy pattern \{.*\}: from the first "{" to the last "}".
StripAssGreedy(s) ==
    LET i == FirstAt(s, 1, "{")
        closes == {j \in 1..Len(s) : s[j] = "}"}
        j == IF closes = {} THEN 0 ELSE CHOOSE k \in closes : \A l \in closes : l <= k
    IN  IF i # 0 /\ j > i
        THEN SubSeq(s, 1, i - 1) \o SubSeq(s, j + 1, Len(s))
        ELSE s

\* ASS_TAGS.replace_all(text, ""): \{[^}]*\}
StripAss(s) == ReplaceAll(s, 1, "{", "}", 0)

\* HTML_TAGS.replace_all(text, ""): <[^>]+>
StripHtml(s) == ReplaceAll(s, 1, "<", ">", 1)

\* clean_text without its trim.
CleanNoTrim(s) ==
    CHOOSE out \in {StripHtml(t1) : t1 \in {StripAss(s)}} : TRUE

\* clean_text: each `let text` is bound once, to the value of the call before
\* it.
clean_text(s) ==
    CHOOSE out \in {Trim(t2) : t2 \in {StripHtml(t1) : t1 \in {StripAss(s)}}} : TRUE

(***************************************************************************)
(* The counters and the ratio.                                             *)
(***************************************************************************)
\* whichlang::Lang, as main's match sees it: Cmn, Jpn, and "Eng" for every
\* other language of the enumeration (the `_` arm).
Lang == {"Cmn", "Jpn", "Eng"}

\* A match whose `_` arm counts the cue as Japanese.
RecordOtherAsJpn(c, j, lang) ==
    IF lang = "Cmn" THEN <<c + 1, j>> ELSE <<c, j + 1>>

\* The match on detect_language's result: the counters after one cue.
Record(c, j, lang) ==
    IF lang = "Cmn" THEN <<c + 1, j>>
    ELSE IF lang = "Jpn" THEN <<c, j + 1>>
    ELSE <<c, j>>

\* f32 keeps 24 significant bits.
F32Bits == 24

RECURSIVE Pow2(_)
Pow2(n) == IF n = 0 THEN 1 ELSE 2 * Pow2(n - 1)

\* An f32 value: NaN, or m * 2^(-e) with m = 0 or 2^23 <= m < 2^24.
F32NaN == [kind |-> "nan", m |-> 0, e |-> 0]
F32Inf == [kind |-> "inf", m |-> 0, e |-> 0]
F32Num(m, e) == [kind |-> "num", m |-> m, e |-> e]

RECURSIVE ShiftsTo24(_)
\* How many low bits an integer loses when it is cut to 24 significant bits.
ShiftsTo24(n) == IF n < Pow2(F32Bits) THEN 0 ELSE 1 + ShiftsTo24(n \div 2)

\* `n as f32` for an i32 n >= 0: n rounded to 24 significant bits, ties to
\* even; the result is again an integer.
ToF32(n) ==
    LET k == ShiftsTo24(n)
        q == n \div Pow2(k)
        r == n % Pow2(k)
        up == (2 * r > Pow2(k)) \/ (2 * r = Pow2(k) /\ q % 2 = 1)
    IN  IF up THEN (q + 1) * Pow2(k) ELSE q * Pow2(k)

\* The binary expansion of r / b (0 < r < b) from its bit k + 1 on, for the
\* state st = <<r, b, k, M, n>>: M holds the n significant bits found so
\* far; after 24 of them the quotient is rounded to nearest, ties to even.
DivBits[st \in Nat \X Nat \X Nat \X Nat \X Nat] ==
    LET r == st[1]
        b == st[2]
        k == st[3]
        M == st[4]
        n == st[5]
    IN  IF n = F32Bits
        THEN LET up == (r > b - r) \/ (r = b - r /\ M % 2 = 1)
                 M2 == IF up THEN M + 1 ELSE M
             IN  IF M2 = Pow2(F32Bits) THEN F32Num(Pow2(F32Bits - 1), k - 1)
                 ELSE F32Num(M2, k)
        ELSE LET bit == r >= b - r
                 r2 == IF bit THEN r - (b - r) ELSE r + r
             IN  IF n = 0 /\ ~bit THEN DivBits[<<r2, b, k + 1, 0, 0>>]
                 ELSE DivBits[<<r2, b, k + 1, 2 * M + (IF bit THEN 1 ELSE 0), n + 1>>]

\* a / b in f32, for integer-valued operands 0 <= a <= b.
F32Div(a, b) ==
    IF b = 0 THEN (IF a = 0 THEN F32NaN ELSE F32Inf)
    ELSE IF a = 0 THEN F32Num(0, 0)
    ELSE IF a = b THEN F32Num(Pow2(F32Bits - 1), F32Bits - 1)
    ELSE DivBits[<<a, b, 0, 0, 0>>]

\* x < y on f32 values; a comparison with NaN is false.
F32Less(x, y) ==
    /\ x.kind = "num" /\ y.kind = "num"
    /\ IF x.m = 0 THEN y.m > 0
       ELSE /\ y.m > 0
            /\ (x.e > y.e \/ (x.e = y.e /\ x.m < y.m))

\* The ratio with the wrong numerator: japanese_count over the total.
RatioOfJapanese(c, j) == F32Div(ToF32(j), ToF32(j + c))

\* chinese_count as f32 / (japanese_count + chinese_count) as f32
Ratio(c, j) == F32Div(ToF32(c), ToF32(j + c))

(***************************************************************************)
(* The inputs of a run.                                                    *)
(***************************************************************************)
\* The sequences over S of length at most n.
SeqsUpTo(S, n) == UNION {[1..k -> S] : k \in 0..n}

\* The cues a parser may return: a white-space cue, a cue made only of
\* markup (both are empty once cleaned), and cues with text.
RawCues ==
    { <<" ">>, <<"{", "a", "}">>, <<"c">>, <<"<", "b", ">", "j", " ">> }

\* The strings detect_language is called with: the cleaned cues of main and
\* the two texts of the test.
CleanedTexts == {clean_text(t) : t \in RawCues} \cup {<<"c">>, <<"j">>}

\* detect_language is a function of its argument.  The test pins two of its
\* values ("c" stands for its Chinese text, "j" for its Japanese text); what
\* it returns for any other string is not decided by the source.
Detectors ==
    {d \in [CleanedTexts -> Lang] : d[<<"c">>] = "Cmn" /\ d[<<"j">>] = "Jpn"}

\* supported_extensions
Supported == {"ass", "srt", "vtt", "lrc"}

\* The extensions of the files met by the walk ("" for a file without one).
RawExts == {"ass", "SRT", "vtt", "Lrc", "txt", ""}

\* str::to_lowercase, on the extensions of the model.
ToLower(e) ==
    CASE e = "SRT" -> "srt"
      [] e = "Lrc" -> "lrc"
      [] OTHER -> e

\* What a parser's from_str returns: Ok with the events, or Err (the events
\* it had read before the error are dropped with it).
ParseResults == [ok : BOOLEAN, events : SeqsUpTo(RawCues, MaxCues)]

RECURSIVE SeqToBag(_)
SeqToBag(s) ==
    IF s = <<>> THEN EmptyBag ELSE SetToBag({Head(s)}) (+) SeqToBag(Tail(s))

(***************************************************************************)
(* The extractors.                                                         *)
(***************************************************************************)
\* An extractor that keeps the events read before a parse error.
EventsDespiteError(r) == r.events

\* parse_ass
parse_ass(r) == IF r.ok THEN r.events ELSE <<>>

\* parse_srt
parse_srt(r) == IF r.ok THEN r.events ELSE <<>>

\* parse_vtt
parse_vtt(r) == IF r.ok THEN r.events ELSE <<>>

\* A filter that forgets the trim: !text.is_empty()
LrcKeepNonEmpty(t) == t # <<>>

\* The filter of parse_lrc: !text.trim().is_empty()
LrcKeep(t) == Trim(t) # <<>>

\* parse_lrc
parse_lrc(r) == IF r.ok THEN SelectSeq(r.events, LrcKeep) ELSE <<>>

\* The match on ext that picks the extractor.
Extract(e, r) ==
    CASE e = "ass" -> parse_ass(r)
      [] e = "srt" -> parse_srt(r)
      [] e = "vtt" -> parse_vtt(r)
      [] e = "lrc" -> parse_lrc(r)

(***************************************************************************)
(* main.                                                                   *)
(***************************************************************************)
Init ==
    /\ pc = "walk"
    /\ walked = 0
    /\ ext = ""
    /\ failure = "none"
    /\ events = <<>>
    /\ texts = <<>>
    /\ ti = 0
    /\ text = <<>>
    /\ cleaned = <<>>
    /\ chinese_count = 0
    /\ japanese_count = 0
    /\ detector \in Detectors
    /\ stdout = <<>>
    /\ labelled = EmptyBag
    /\ cueBag = EmptyBag
    /\ entered = <<>>
    /\ atOpen = <<0, 0>>
    /\ prev = <<0, 0>>
    /\ lastLang = "none"

counters == <<chinese_count, japanese_count>>
file == <<ext, failure, events, texts, ti, entered>>
cue == <<text, cleaned, prev, lastLang>>

\* The walk yields an error: `Err(_) => continue`.
WalkError ==
    /\ pc = "walk" /\ walked < MaxEntries
    /\ walked' = walked + 1
    /\ UNCHANGED <<pc, file, cue, counters, detector, stdout, labelled, cueBag, atOpen>>

\* The walk yields a directory (or anything that is not a file).
WalkNotFile ==
    /\ pc = "walk" /\ walked < MaxEntries
    /\ walked' = walked + 1
    /\ UNCHANGED <<pc, file, cue, counters, detector, stdout, labelled, cueBag, atOpen>>

\* The walk yields a file whose extension is not supported: `continue`.
WalkUnsupported ==
    /\ pc = "walk" /\ walked < MaxEntries
    /\ \E e \in RawExts : ToLower(e) \notin Supported
    /\ walked' = walked + 1
    /\ UNCHANGED <<pc, file, cue, counters, detector, stdout, labelled, cueBag, atOpen>>

\* WalkFile with the counters declared inside the loop: each file starts
\* them again at zero.
WalkFileResets ==
    /\ pc = "walk" /\ walked < MaxEntries
    /\ \E e \in RawExts :
          /\ ToLower(e) \in Supported
          /\ ext' = ToLower(e)
    /\ walked' = walked + 1
    /\ failure' = "none"
    /\ events' = <<>>
    /\ texts' = <<>>
    /\ ti' = 0
    /\ entered' = <<>>
    /\ chinese_count' = 0 /\ japanese_count' = 0
    /\ atOpen' = <<0, 0>>
    /\ pc' = "open"
    /\ UNCHANGED <<cue, detector, stdout, labelled, cueBag>>

\* The walk yields a file with a supported extension.
WalkFile ==
    /\ pc = "walk" /\ walked < MaxEntries
    /\ \E e \in RawExts :
          /\ ToLower(e) \in Supported
          /\ ext' = ToLower(e)
    /\ walked' = walked + 1
    /\ failure' = "none"
    /\ events' = <<>>
    /\ texts' = <<>>
    /\ ti' = 0
    /\ entered' = <<>>
    /\ atOpen' = counters
    /\ pc' = "open"
    /\ UNCHANGED <<cue, counters, detector, stdout, labelled, cueBag>>

\* The walk is over.
WalkEnd ==
    /\ pc = "walk"
    /\ pc' = "print"
    /\ UNCHANGED <<walked, file, cue, counters, detector, stdout, labelled, cueBag, atOpen>>

\* File::open fails and the error ends the process (an unwrap, a `?`).
OpenErrAborts ==
    /\ pc = "open"
    /\ failure' = "open"
    /\ ext' = ""
    /\ pc' = "aborted"
    /\ UNCHANGED <<walked, events, texts, ti, entered, cue, counters, detector,
                   stdout, labelled, cueBag, atOpen>>

\* File::open fails: the error is printed, `continue`.
OpenErr ==
    /\ pc = "open"
    /\ failure' = "open"
    /\ ext' = ""
    /\ pc' = "walk"
    /\ UNCHANGED <<walked, events, texts, ti, entered, cue, counters, detector,
                   stdout, labelled, cueBag, atOpen>>

\* File::open succeeds.
OpenOk ==
    /\ pc = "open"
    /\ pc' = "read"
    /\ UNCHANGED <<walked, file, cue, counters, detector, stdout, labelled, cueBag, atOpen>>

\* read_to_end fails: the error is printed, `continue`.
ReadErr ==
    /\ pc = "read"
    /\ failure' = "read"
    /\ ext' = ""
    /\ pc' = "walk"
    /\ UNCHANGED <<walked, events, texts, ti, entered, cue, counters, detector,
                   stdout, labelled, cueBag, atOpen>>

\* read_to_end succeeds.
ReadOk ==
    /\ pc = "read"
    /\ pc' = "decode"
    /\ UNCHANGED <<walked, file, cue, counters, detector, stdout, labelled, cueBag, atOpen>>

\* The bytes are decoded; decoding errors (had_errors) only print a warning.
Decode ==
    /\ pc = "decode"
    /\ \E had_errors \in BOOLEAN : pc' = "reread"
    /\ UNCHANGED <<walked, file, cue, counters, detector, stdout,
                   labelled, cueBag, atOpen>>

\* read_to_string (on the file already read to its end) fails: the error is
\* printed, `continue`.
RereadErr ==
    /\ pc = "reread"
    /\ failure' = "reread"
    /\ ext' = ""
    /\ pc' = "walk"
    /\ UNCHANGED <<walked, events, texts, ti, entered, cue, counters, detector,
                   stdout, labelled, cueBag, atOpen>>

\* read_to_string succeeds.
RereadOk ==
    /\ pc = "reread"
    /\ pc' = "parse"
    /\ UNCHANGED <<walked, file, cue, counters, detector, stdout, labelled, cueBag, atOpen>>

\* The extractor of the file's format runs on a parser result drawn from
\* `results`; a parse error is reported and leaves no cue.
ParseWith(results) ==
    /\ pc = "parse"
    /\ \E r \in results :
          /\ events' = IF r.ok THEN r.events ELSE <<>>
          /\ failure' = IF r.ok THEN "none" ELSE "parse"
          /\ texts' = Extract(ext, r)
          /\ cueBag' = cueBag (+) SeqToBag(Extract(ext, r))
    /\ ti' = 0
    /\ pc' = "cues"
    /\ UNCHANGED <<walked, ext, entered, cue, counters, detector, stdout,
                   labelled, atOpen>>

Parse == ParseWith(ParseResults)

\* One turn of `for text in texts`: clean, detect, count.
Classify ==
    /\ pc = "cues" /\ ti < Len(texts)
    /\ text' = texts[ti + 1]
    /\ cleaned' = clean_text(texts[ti + 1])
    /\ LET lang == detector[clean_text(texts[ti + 1])]
       IN  /\ chinese_count' = Record(chinese_count, japanese_count, lang)[1]
           /\ japanese_count' = Record(chinese_count, japanese_count, lang)[2]
           /\ lastLang' = lang
           /\ labelled' = labelled (+) SetToBag({lang})
    /\ prev' = counters
    /\ ti' = ti + 1
    /\ entered' = Append(entered, texts[ti + 1])
    /\ UNCHANGED <<pc, walked, ext, failure, events, texts, detector, stdout,
                   cueBag, atOpen>>

\* The for loop is over: the locals of the loop body are dropped, on to the
\* next entry.
NextFile ==
    /\ pc = "cues" /\ ti = Len(texts)
    /\ pc' = "walk"
    /\ ext' = "" /\ events' = <<>> /\ texts' = <<>> /\ ti' = 0
    /\ text' = <<>> /\ cleaned' = <<>> /\ entered' = <<>>
    /\ failure' = "none" /\ lastLang' = "none"
    /\ prev' = counters /\ atOpen' = counters
    /\ UNCHANGED <<walked, counters, detector, stdout, labelled, cueBag>>

\* The progress line with an integer division, which panics on a zero
\* divisor.
PrintProgressIntDiv ==
    /\ pc = "print"
    /\ IF japanese_count + chinese_count = 0
       THEN pc' = "panicked" /\ stdout' = stdout
       ELSE pc' = "done"
            /\ stdout' = Append(stdout, Ratio(chinese_count, japanese_count))
    /\ UNCHANGED <<walked, file, cue, counters, detector, labelled, cueBag, atOpen>>

\* println!: the progress line.
PrintProgress ==
    /\ pc = "print"
    /\ stdout' = Append(stdout, Ratio(chinese_count, japanese_count))
    /\ pc' = "done"
    /\ UNCHANGED <<walked, file, cue, counters, detector, labelled, cueBag, atOpen>>

Next ==
    \/ WalkError \/ WalkNotFile \/ WalkUnsupported \/ WalkFile \/ WalkEnd
    \/ OpenErr \/ OpenOk \/ ReadErr \/ ReadOk \/ Decode
    \/ RereadErr \/ RereadOk \/ Parse \/ Classify \/ NextFile
    \/ PrintProgress

Spec == Init /\ [][Next]_vars

\* main is one thread of straight-line code: every call returns and the
\* next step is taken.
FairSpec == Spec /\ WF_vars(Next)

(***************************************************************************)
(* clean_text on its own: every cue of at most MaxLen characters.          *)
(***************************************************************************)
Idle ==
    /\ walked = 0
    /\ failure = "none"
    /\ events = <<>>
    /\ cleaned = <<>>
    /\ stdout = <<>>
    /\ labelled = EmptyBag
    /\ cueBag = EmptyBag
    /\ entered = <<>>
    /\ lastLang = "none"

InitClean ==
    /\ Idle
    /\ pc = "clean"
    /\ text \in SeqsUpTo(Chars, MaxLen)
    /\ ext = "" /\ texts = <<>> /\ ti = 0
    /\ chinese_count = 0 /\ japanese_count = 0
    /\ atOpen = <<0, 0>> /\ prev = <<0, 0>>
    /\ detector = CHOOSE d \in Detectors : TRUE

\* let cleaned = clean_text(&text)
CleanText ==
    /\ pc = "clean"
    /\ cleaned' = clean_text(text)
    /\ pc' = "cleaned"
    /\ UNCHANGED <<walked, file, text, prev, lastLang, counters, detector,
                   stdout, labelled, cueBag, atOpen>>

NextClean == CleanText

CleanSpec == InitClean /\ [][NextClean]_vars

(***************************************************************************)
(* parse_lrc on its own: every lyric file of at most MaxLines timed lines, *)
(* and the loop over its cues.                                             *)
(***************************************************************************)
LrcResults == [ok : BOOLEAN, events : SeqsUpTo(RawCues, MaxLines)]

InitLrc ==
    /\ Idle
    /\ pc = "parse"
    /\ ext = "lrc"
    /\ text = <<>> /\ texts = <<>> /\ ti = 0
    /\ chinese_count = 0 /\ japanese_count = 0
    /\ atOpen = <<0, 0>> /\ prev = <<0, 0>>
    /\ detector \in Detectors

ParseLrc == ParseWith(LrcResults)

NextLrc == ParseLrc \/ Classify

LrcSpec == InitLrc /\ [][NextLrc]_vars

(***************************************************************************)
(* One record on counters of any size: the counters are drawn from 0 ..    *)
(* MaxCount and from the MaxCount + 1 values that end at ExactTotal.       *)
(***************************************************************************)
\* Two quotients c / n of counters with n <= 4095 lie more than 2^-24 apart,
\* which is the spacing of f32 below 1: the division of line 99 keeps them
\* apart.
ExactTotal == 4095

CountSamples == (0..MaxCount) \cup {ExactTotal - k : k \in 0..MaxCount}

InitRatio ==
    /\ Idle
    /\ pc = "cues"
    /\ ext = "ass"
    /\ text = <<>>
    /\ texts \in {<<t>> : t \in RawCues}
    /\ ti = 0
    /\ chinese_count \in CountSamples
    /\ japanese_count \in CountSamples
    /\ atOpen = <<0, 0>> /\ prev = <<0, 0>>
    /\ detector \in Detectors

NextRatio == Classify

RatioSpec == InitRatio /\ [][NextRatio]_vars

(***************************************************************************)
(* The claims.                                                             *)
(***************************************************************************)
RECURSIVE SumOver(_, _, _)
\* The number of copies in bag B of the elements of S with label lang.
SumOver(S, B, lang) ==
    IF S = {} THEN 0
    ELSE LET t == CHOOSE x \in S : TRUE
         IN  (IF detector[clean_text(t)] = lang THEN CopiesIn(t, B) ELSE 0)
             + SumOver(S \ {t}, B, lang)

\* The cues of bag B labelled Chinese and those labelled Japanese.
CountsOf(B) ==
    <<SumOver(BagToSet(B), B, "Cmn"), SumOver(BagToSet(B), B, "Jpn")>>

\* s holds `open`, then at least `least` characters other than `close`, then
\* `close`.
HasGroup(s, open, close, least) ==
    \E i \in 1..Len(s) : \E j \in (i + 1)..Len(s) :
        /\ s[i] = open /\ s[j] = close
        /\ j - i - 1 >= least
        /\ \A k \in (i + 1)..(j - 1) : s[k] # close

\* s holds none of the characters of set S.
Without(s, S) == \A i \in 1..Len(s) : s[i] \notin S

\* The splits <<prefix, anything, suffix>> of s as prefix { anything } suffix.
BraceSplits(s) ==
    {<<SubSeq(s, 1, i - 1), SubSeq(s, i + 1, j - 1), SubSeq(s, j + 1, Len(s))>> :
        <<i, j>> \in {<<a, b>> \in (1..Len(s)) \X (1..Len(s)) :
                         a < b /\ s[a] = "{" /\ s[b] = "}"}}

\* C1: at every point of a run chinese_count is the number of cues the
\* detector has labelled Cmn and japanese_count the number it has labelled
\* Jpn (both zero before the first cue); a cue labelled Cmn or Jpn adds
\* exactly one to its counter and leaves the other, any other label leaves
\* both.
C1_CountersMatchLabels ==
    /\ chinese_count = CopiesIn("Cmn", labelled)
    /\ japanese_count = CopiesIn("Jpn", labelled)
    /\ lastLang = "Cmn" => counters = <<prev[1] + 1, prev[2]>>
    /\ lastLang = "Jpn" => counters = <<prev[1], prev[2] + 1>>
    /\ lastLang \notin {"Cmn", "Jpn"} => counters = prev

C1_Witness ==
    /\ chinese_count >= 1 /\ japanese_count >= 1
    /\ CopiesIn("Eng", labelled) >= 1
    /\ lastLang = "Eng"

\* C2: a file that failed to open, to be read or to parse has handed no cue
\* to the loop and has left the counters as they were when it was picked up,
\* and the run goes on (to the next entry, or to the progress line).
C2_FailingFileAddsNothing ==
    failure # "none" =>
        /\ counters = atOpen
        /\ texts = <<>> /\ entered = <<>>
        /\ pc \in {"walk", "cues", "print", "done"}

C2_Witness ==
    /\ failure = "parse" /\ pc = "cues"
    /\ chinese_count >= 1 /\ walked >= 2

\* C3: every run prints the progress line, prints it once, and prints it
\* only when the walk is over and no file is being processed.
C3_OneProgressLine ==
    /\ <>(pc = "done" /\ Len(stdout) = 1)
    /\ [](Len(stdout) <= 1)
    /\ [](stdout # <<>> => pc = "done" /\ ti = Len(texts))

C3_Witness ==
    /\ pc = "done" /\ Len(stdout) = 1
    /\ failure \in {"open", "read", "reread"}
    /\ walked >= 2

\* C4: a run that ends with both counters at zero does not panic and prints
\* one value, NaN.
C4_ZeroRunPrintsNaN ==
    (chinese_count = 0 /\ japanese_count = 0) =>
        /\ pc # "panicked"
        /\ pc = "done" => stdout = <<F32NaN>>

C4_Witness ==
    /\ pc = "done" /\ chinese_count = 0 /\ japanese_count = 0
    /\ CopiesIn("Eng", labelled) >= 1
    /\ stdout = <<F32NaN>>

\* C5 (the claim as made): a cue whose cleaned text is empty is labelled
\* Other and changes neither counter, whatever detect_language returns for
\* the empty string.
C5_EmptyIsOther ==
    (lastLang # "none" /\ cleaned = <<>>) =>
        (lastLang = "Eng" /\ counters = prev)

\* C6 (the claim as made): with chinese_count + japanese_count > 0, one more
\* Chinese cue makes the ratio strictly larger, one more Japanese cue
\* strictly smaller, any other cue leaves it.
C6_StrictlyMonotone ==
    (lastLang # "none" /\ prev[1] + prev[2] > 0) =>
        /\ lastLang = "Cmn" =>
              F32Less(Ratio(prev[1], prev[2]), Ratio(chinese_count, japanese_count))
        /\ lastLang = "Jpn" =>
              F32Less(Ratio(chinese_count, japanese_count), Ratio(prev[1], prev[2]))
        /\ lastLang = "Eng" =>
              Ratio(chinese_count, japanese_count) = Ratio(prev[1], prev[2])

\* C6 (amended): with 0 < chinese_count + japanese_count <= 4095, one more
\* Chinese cue makes the ratio strictly larger when japanese_count > 0 and
\* leaves it at 1 when japanese_count = 0; one more Japanese cue makes it
\* strictly smaller when chinese_count > 0 and leaves it at 0 when
\* chinese_count = 0; any other cue leaves it.
C6_MonotoneWhenMixed ==
    (lastLang # "none" /\ prev[1] + prev[2] > 0 /\ prev[1] + prev[2] <= ExactTotal) =>
        LET before == Ratio(prev[1], prev[2])
            after == Ratio(chinese_count, japanese_count)
        IN  /\ (lastLang = "Cmn" /\ prev[2] > 0) => F32Less(before, after)
            /\ (lastLang = "Cmn" /\ prev[2] = 0) => (after = before /\ after = Ratio(1, 0))
            /\ (lastLang = "Jpn" /\ prev[1] > 0) => F32Less(after, before)
            /\ (lastLang = "Jpn" /\ prev[1] = 0) => (after = before /\ after = Ratio(0, 1))
            /\ lastLang = "Eng" => after = before

C6_Witness ==
    /\ lastLang = "Cmn" /\ prev = <<ExactTotal - 1, 1>>
    /\ F32Less(Ratio(prev[1], prev[2]), Ratio(chinese_count, japanese_count))

\* C7 (the claim as made): for every cue prefix { anything } suffix,
\* clean_text returns prefix followed by suffix.
C7_GroupRemoved ==
    pc = "cleaned" =>
        \A sp \in BraceSplits(text) : cleaned = sp[1] \o sp[3]

\* C7 (amended): for every cue prefix { anything } suffix where anything
\* holds no "}" and prefix no "{", clean_text returns what it returns for
\* prefix followed by suffix; when prefix and suffix hold no brace and no
\* angle bracket, that is prefix followed by suffix, trimmed.
C7_GroupRemovedWhenFlat ==
    pc = "cleaned" =>
        \A sp \in BraceSplits(text) :
            (Without(sp[2], {"}"}) /\ Without(sp[1], {"{"})) =>
                /\ cleaned = clean_text(sp[1] \o sp[3])
                /\ Without(sp[1] \o sp[3], {"{", "}", "<", ">"}) =>
                      cleaned = Trim(sp[1] \o sp[3])

C7_Witness ==
    /\ pc = "cleaned"
    /\ text = <<"a", "{", "<", "}", "a">>
    /\ cleaned = <<"a", "a">>

\* C8 (the claim as made): the output of clean_text holds no "{", characters
\* other than "}", "}", no "<", zero or more characters other than ">", ">",
\* and neither starts nor ends with white space.
C8_NoResidualMarkup ==
    pc = "cleaned" =>
        /\ ~HasGroup(cleaned, "{", "}", 0)
        /\ ~HasGroup(cleaned, "<", ">", 0)
        /\ cleaned # <<>> =>
              (~IsWhitespace(cleaned[1]) /\ ~IsWhitespace(cleaned[Len(cleaned)]))

\* C8 (amended): the output of clean_text holds no "{", characters other
\* than "}", "}", no "<", one or more characters other than ">", ">", and
\* neither starts nor ends with white space; "<>" is kept.
C8_NoResidualTag ==
    pc = "cleaned" =>
        /\ ~HasGroup(cleaned, "{", "}", 0)
        /\ ~HasGroup(cleaned, "<", ">", 1)
        /\ cleaned # <<>> =>
              (~IsWhitespace(cleaned[1]) /\ ~IsWhitespace(cleaned[Len(cleaned)]))

C8_Witness ==
    /\ pc = "cleaned"
    /\ text = <<" ", "<", "a", ">", "a">>
    /\ cleaned = <<"a">>

\* C9: the cues of a parsed lyric file that enter the loop are the timed
\* lines whose trimmed text is not empty, each of them once and in the order
\* of the timed lines.
C9_LrcKeepsNonEmptyLines ==
    (ext = "lrc" /\ failure = "none" /\ pc = "cues") =>
        LET keep == {i \in 1..Len(events) : Trim(events[i]) # <<>>}
            nth(k) == CHOOSE i \in keep : Cardinality({x \in keep : x <= i}) = k
        IN  /\ Len(texts) = Cardinality(keep)
            /\ \A k \in 1..Len(texts) : texts[k] = events[nth(k)]
            /\ entered = SubSeq(texts, 1, ti)

C9_Witness ==
    /\ ext = "lrc" /\ failure = "none" /\ pc = "cues"
    /\ events = << <<"c">>, <<" ">>, <<"<", "b", ">", "j", " ">> >>
    /\ entered = << <<"c">>, <<"<", "b", ">", "j", " ">> >>
    /\ ti = Len(texts)

\* C10: the counters and the ratio at the end depend on the multiset of the
\* cues only, not on the order of the cues or of the files.
C10_OrderIndependent ==
    pc = "done" =>
        /\ counters = CountsOf(cueBag)
        /\ stdout = <<Ratio(CountsOf(cueBag)[1], CountsOf(cueBag)[2])>>

C10_Witness ==
    /\ pc = "done" /\ walked >= 2
    /\ chinese_count >= 1 /\ japanese_count >= 1
    /\ BagCardinality(cueBag) >= 3

====
